---- MODULE Spec2Model ----
(***************************************************************************)
(* The memoizing wrapper of the notebook 7-fib-memoize.ipynb.              *)
(*                                                                         *)
(* A session builds wrappers with memoize(fn) or memoize(fn, cache), then  *)
(* calls them and clears caches.  The wrapped functions are the notebook's *)
(* own: the recursive fib, whose recursive calls go through the name fib   *)
(* and so through the wrapper bound to it; count_distinct_words(url),      *)
(* which raises while the network is down; and cmp_url(a, b).  The wrapped *)
(* bodies are instrumented: every invocation is counted per cache and key. *)
(*                                                                         *)
(* Spec is that session.  The other specifications are the notebook's      *)
(* other cells and uses of the wrapper, over the same variables:           *)
(*   SpecForms  the decorator and the assignment, side by side;            *)
(*   SpecHow    the loop of fib_how;                                       *)
(*   SpecRace   two callers of one wrapper at the same time;               *)
(*   SpecHand   the fib that caches by hand in the dictionary `cache`;     *)
(*   SpecUrls   word_counts, cmp_url and cmp_url_cached;                   *)
(*   SpecMixed  wrappers of two functions over one dictionary.             *)
(***************************************************************************)
EXTENDS Integers, Sequences, FiniteSets, TLC

\* Bounds of the model.
MaxN == 10
NumUrls == 2
MaxFails == 1
MaxPair == 5
MaxHow == 14

(***************************************************************************)
(* Values and calls.  A value is an int or a str (hashable) or a list      *)
(* (unhashable).  A call carries its positional arguments and its keyword  *)
(* arguments in the order they were written.                               *)
(***************************************************************************)
IntV(n) == <<"int", n>>
StrV(n) == <<"str", n>>
ListV(n) == <<"list", n>>
Hashable(v) == v[1] # "list"

Pos(args) == [args |-> args, kwargs |-> <<>>]
Kw(kwargs) == [args |-> <<>>, kwargs |-> kwargs]
NoCall == Pos(<<>>)

\* urls: the pages, numbered; the words of a page's text.  Page u has 2u
\* distinct words, one of them twice, so the counts of two pages differ by
\* more than one.
urls == 1..NumUrls
Text(u) == [j \in 1..(2 * u + 1) |-> j % (2 * u)]

\* The calls made to a wrapper of fib(i).
FibCalls == { Pos(<<IntV(n)>>) : n \in 0..MaxN } \cup { Pos(<<ListV(1)>>) }

\* The calls made to a wrapper of count_distinct_words(url).
WordsCalls == { Pos(<<StrV(u)>>) : u \in urls } \cup { Pos(<<ListV(1)>>) }

\* The calls made to a wrapper of cmp_url(a, b).
CmpCalls ==
  { Pos(<<StrV(1), StrV(2)>>), Pos(<<StrV(2), StrV(1)>>),
    Kw(<< <<"a", StrV(1)>>, <<"b", StrV(2)>> >>),
    Kw(<< <<"b", StrV(2)>>, <<"a", StrV(1)>> >>),
    Kw(<< <<"a", StrV(1)>>, <<"b", ListV(1)>> >>) }

CallsOf(fn) ==
  IF fn = "fib" THEN FibCalls
  ELSE IF fn = "count_distinct_words" THEN WordsCalls
  ELSE CmpCalls

(***************************************************************************)
(* The sessions: which wrappers are built, each with the notebook's        *)
(* dictionary `cache` (ext) or without a cache argument.                   *)
(***************************************************************************)
\* fn = memoize(fn) or fn = memoize(fn, cache): the wrapper takes the name
\* of the function it wraps.
W(fn, ext) == [fn |-> fn, ext |-> ext, name |-> fn]

Programs ==
  { << W("fib", TRUE) >>,
    << W("fib", FALSE) >>,
    << W("count_distinct_words", TRUE), W("count_distinct_words", TRUE) >>,
    << W("count_distinct_words", FALSE), W("count_distinct_words", FALSE) >>,
    << W("cmp_url", FALSE) >> }

VARIABLES
  wrappers,  \* the wrappers built: [fn, ext, cache, name]
  caches,    \* the dictionaries; caches[1] is the notebook's `cache` (word_counts in SpecUrls)
  invoked,   \* per cache and key: invocations of the wrapped body since the last clear
  raised,    \* per cache and key: those invocations that raised
  storedBy,  \* per cache and key: the wrapper and the call whose miss stored the entry
  down,      \* whether the network is down, so that urlopen raises
  last,      \* what the last operation was and how it ended
  frames     \* the local variables of the callers and of the calls in progress

vars == <<wrappers, caches, invoked, raised, storedBy, down, last, frames>>

(***************************************************************************)
(* Dictionaries are functions whose domain is the set of keys present.     *)
(***************************************************************************)
Get(m, k) == IF k \in DOMAIN m THEN m[k] ELSE 0
Put(m, k, v) == (k :> v) @@ m
Inc(m, k) == Put(m, k, Get(m, k) + 1)

RECURSIVE SumOver(_, _)
SumOver(m, ks) ==
  IF ks = {} THEN 0
  ELSE LET k == CHOOSE x \in ks : TRUE IN m[k] + SumOver(m, ks \ {k})

Total(ms) == SumOver([c \in DOMAIN ms |-> SumOver(ms[c], DOMAIN ms[c])], DOMAIN ms)

(***************************************************************************)
(* The cache key of a call: the positional arguments in order and the      *)
(* keyword arguments as a set of name/value pairs.  A call with an         *)
(* unhashable argument has no key.                                         *)
(***************************************************************************)
\* A key that serialises unhashable arguments instead of refusing them.
Keyable_permissive(call) == TRUE

Keyable(call) ==
  /\ \A j \in DOMAIN call.args : Hashable(call.args[j])
  /\ \A j \in DOMAIN call.kwargs : Hashable(call.kwargs[j][2])

\* A key that keeps the keyword arguments in the order written.
Key_ordered(call) == <<call.args, call.kwargs>>

Key(call) == <<call.args, { call.kwargs[j] : j \in DOMAIN call.kwargs }>>

\* The argument a call binds to the parameter `name` at position `pos`.
Param(call, name, pos) ==
  IF Len(call.args) >= pos THEN call.args[pos]
  ELSE LET j == CHOOSE j \in DOMAIN call.kwargs : call.kwargs[j][1] = name
       IN  call.kwargs[j][2]

(***************************************************************************)
(* The notebook's first definition of the sequence.                        *)
(***************************************************************************)
RECURSIVE fib_what(_)
fib_what(i) ==
  IF i = 0 THEN 0
  ELSE IF i = 1 THEN 1
  ELSE fib_what(i - 1) + fib_what(i - 2)

Return(st, v) == [st |-> st, outcome |-> "ok", result |-> v]
Raise(st, kind) == [st |-> st, outcome |-> kind, result |-> 0]

\* len(set(text.split()))
DistinctWords(u) == Cardinality({ Text(u)[j] : j \in DOMAIN Text(u) })

\* count_distinct_words without the set: every word of the text is counted.
count_distinct_words_all(st, url) ==
  IF down THEN Raise(st, "raise")
  ELSE Return(st, Len(Text(url[2])))

\* def count_distinct_words(url): urlopen raises while the network is down.
count_distinct_words(st, url) ==
  IF down THEN Raise(st, "raise")
  ELSE Return(st, DistinctWords(url[2]))

\* def cmp_url(a, b)
cmp_url(st, a, b) ==
  LET ca == count_distinct_words(st, a)
  IN  IF ca.outcome # "ok" THEN ca
      ELSE LET cb == count_distinct_words(ca.st, b)
           IN  IF cb.outcome # "ok" THEN cb
               ELSE Return(cb.st, ca.result - cb.result)

RECURSIVE g(_, _, _)
RECURSIVE Body(_, _, _)

\* fib with the recursive calls made to the function itself, not to the wrapper.
fib_unwrapped(st, w, i) ==
  IF i = 0 THEN Return(st, 0)
  ELSE IF i = 1 THEN Return(st, 1)
  ELSE LET r1 == Body(st, w, Pos(<<IntV(i - 1)>>))
       IN  IF r1.outcome # "ok" THEN r1
           ELSE LET r2 == Body(r1.st, w, Pos(<<IntV(i - 2)>>))
                IN  IF r2.outcome # "ok" THEN r2
                    ELSE Return(r2.st, r1.result + r2.result)

\* fib with its second recursive call mistyped: fib(i - 1) + fib(i - 1).
fib_typo(st, w, i) ==
  IF i = 0 THEN Return(st, 0)
  ELSE IF i = 1 THEN Return(st, 1)
  ELSE LET r1 == g(st, w, Pos(<<IntV(i - 1)>>))
       IN  IF r1.outcome \notin {"hit", "miss"} THEN r1
           ELSE LET r2 == g(r1.st, w, Pos(<<IntV(i - 1)>>))
                IN  IF r2.outcome \notin {"hit", "miss"} THEN r2
                    ELSE Return(r2.st, r1.result + r2.result)

(***************************************************************************)
(* The call fib(...) written in the body of def fib(i): the name fib is    *)
(* looked up when the call is made.  After fib = memoize(fib, ...) it is   *)
(* the wrapper w; when the wrapper was given another name it is still the  *)
(* function itself.                                                        *)
(***************************************************************************)
Rec(st, w, call) ==
  IF wrappers[w].name = wrappers[w].fn THEN g(st, w, call)
  ELSE Body(st, w, call)

\* def fib(i)
fib(st, w, i) ==
  IF i = 0 THEN Return(st, 0)
  ELSE IF i = 1 THEN Return(st, 1)
  ELSE LET r1 == Rec(st, w, Pos(<<IntV(i - 1)>>))
       IN  IF r1.outcome \notin {"hit", "miss", "ok"} THEN r1
           ELSE LET r2 == Rec(r1.st, w, Pos(<<IntV(i - 2)>>))
                IN  IF r2.outcome \notin {"hit", "miss", "ok"} THEN r2
                    ELSE Return(r2.st, r1.result + r2.result)

\* The function the wrapper w wraps, applied to the call's arguments.  fib of
\* a str passes both comparisons with 0 and 1 and raises at i - 1.
Apply(st, w, call) ==
  IF wrappers[w].fn = "fib"
  THEN IF Param(call, "i", 1)[1] = "int"
       THEN fib(st, w, Param(call, "i", 1)[2])
       ELSE Raise(st, "raise")
  ELSE IF wrappers[w].fn = "count_distinct_words"
       THEN count_distinct_words(st, Param(call, "url", 1))
       ELSE cmp_url(st, Param(call, "a", 1), Param(call, "b", 2))

\* The instrumented body: counts the invocation, and whether it raised.
Body(st, w, call) ==
  LET c == wrappers[w].cache
      k == Key(call)
      r == Apply([st EXCEPT !.invoked[c] = Inc(@, k), !.ninv = @ + 1], w, call)
  IN  IF r.outcome = "ok" THEN r
      ELSE [r EXCEPT !.st.raised[c] = Inc(@, k)]

\* A store that keeps only the newest entry.
Store_evicting(st, c, k, v, w, call) ==
  [st EXCEPT !.caches[c] = (k :> v),
             !.storedBy[c] = (k :> [w |-> w, call |-> call])]

\* The entry a miss stores.
Store(st, c, k, v, w, call) ==
  [st EXCEPT !.caches[c] = Put(@, k, v),
             !.storedBy[c] = Put(@, k, [w |-> w, call |-> call])]

\* A wrapper that stores a failure as if it were a result.
g_caching_failure(st, w, call) ==
  IF ~Keyable(call) THEN Raise(st, "keyerror")
  ELSE LET c == wrappers[w].cache
           k == Key(call)
       IN  IF k \in DOMAIN st.caches[c]
           THEN [st |-> st, outcome |-> "hit", result |-> st.caches[c][k]]
           ELSE LET r == Body(st, w, call)
                IN  IF r.outcome # "ok"
                    THEN [r EXCEPT !.st = Store(r.st, c, k, r.result, w, call)]
                    ELSE [st |-> Store(r.st, c, k, r.result, w, call),
                          outcome |-> "miss", result |-> r.result]

(***************************************************************************)
(* The wrapper g = memoize(fn, cache): key, then hit or miss-and-store.    *)
(***************************************************************************)
g(st, w, call) ==
  IF ~Keyable(call) THEN Raise(st, "keyerror")
  ELSE LET c == wrappers[w].cache
           k == Key(call)
       IN  IF k \in DOMAIN st.caches[c]
           THEN [st |-> st, outcome |-> "hit", result |-> st.caches[c][k]]
           ELSE LET r == Body(st, w, call)
                IN  IF r.outcome # "ok" THEN r
                    ELSE [st |-> Store(r.st, c, k, r.result, w, call),
                          outcome |-> "miss", result |-> r.result]

(***************************************************************************)
(* memoize(fn, cache) and memoize(fn): the cache a new wrapper uses is the *)
(* dictionary the caller passed, or a dictionary generated for it; n is    *)
(* the number of dictionaries there are.                                   *)
(***************************************************************************)
\* A memoize that ignores the dictionary passed to it.
CacheFor_ignored(ext, n) == n + 1

\* A memoize whose generated dictionary is one default shared by all wrappers.
CacheFor_default(ext, n) == IF ext THEN 1 ELSE 2

\* A memoize that keeps every wrapper's entries in one module-level dictionary.
CacheFor_global(ext, n) == 1

CacheFor(ext, n) == IF ext THEN 1 ELSE n + 1

RECURSIVE Build(_)
Build(prog) ==
  IF prog = <<>> THEN [wrappers |-> <<>>, n |-> 1]
  ELSE LET b == Build(SubSeq(prog, 1, Len(prog) - 1))
           p == prog[Len(prog)]
           c == CacheFor(p.ext, b.n)
       IN  [wrappers |-> Append(b.wrappers,
                                [fn |-> p.fn, ext |-> p.ext, cache |-> c,
                                 name |-> p.name]),
            n |-> IF c > b.n THEN c ELSE b.n]

Op(op, w, c, call, outcome, result, ninv, keys, refill) ==
  [op |-> op, w |-> w, cache |-> c, call |-> call, outcome |-> outcome,
   result |-> result, ninv |-> ninv, keys |-> keys, refill |-> refill]

\* cache = dict(), then the session's memoize calls.
Init ==
  \E prog \in Programs :
    LET b == Build(prog)
    IN  /\ wrappers = b.wrappers
        /\ caches = [c \in 1..b.n |-> <<>>]
        /\ invoked = [c \in 1..b.n |-> <<>>]
        /\ raised = [c \in 1..b.n |-> <<>>]
        /\ storedBy = [c \in 1..b.n |-> <<>>]
        /\ down = FALSE
        /\ last = Op("init", 0, 0, NoCall, "none", 0, 0, {}, FALSE)
        /\ frames = <<>>

\* g(*args, **kwargs).  The calls that raise are capped at MaxFails between
\* clears, which keeps the counters finite.
Call(w, call) ==
  LET c == wrappers[w].cache
      st0 == [caches |-> caches, invoked |-> invoked, raised |-> raised,
              storedBy |-> storedBy, ninv |-> 0]
      r == g(st0, w, call)
  IN  /\ Total(r.st.raised) <= MaxFails
      /\ caches' = r.st.caches
      /\ invoked' = r.st.invoked
      /\ raised' = r.st.raised
      /\ storedBy' = r.st.storedBy
      /\ last' = Op("call", w, c, call, r.outcome, r.result, r.st.ninv, {},
                    /\ last.op = "clear"
                    /\ last.cache = c
                    /\ Keyable(call)
                    /\ Key(call) \in last.keys)
      /\ UNCHANGED <<wrappers, down, frames>>

\* A clear that removes nothing.
clear_noop(d) == d

\* dict.clear()
clear(d) == <<>>

\* cache.clear()
Clear(c) ==
  /\ caches' = [caches EXCEPT ![c] = clear(@)]
  /\ invoked' = [invoked EXCEPT ![c] = <<>>]
  /\ raised' = [raised EXCEPT ![c] = <<>>]
  /\ storedBy' = [storedBy EXCEPT ![c] = <<>>]
  /\ last' = Op("clear", 0, c, NoCall, "none", 0, 0, DOMAIN caches[c], FALSE)
  /\ UNCHANGED <<wrappers, down, frames>>

\* The network goes down; the network comes back.
NetDown ==
  /\ ~down
  /\ down' = TRUE
  /\ last' = Op("down", 0, 0, NoCall, "none", 0, 0, {}, FALSE)
  /\ UNCHANGED <<wrappers, caches, invoked, raised, storedBy, frames>>

NetUp ==
  /\ down
  /\ down' = FALSE
  /\ last' = Op("up", 0, 0, NoCall, "none", 0, 0, {}, FALSE)
  /\ UNCHANGED <<wrappers, caches, invoked, raised, storedBy, frames>>

Next ==
  \/ \E w \in DOMAIN wrappers : \E call \in CallsOf(wrappers[w].fn) : Call(w, call)
  \/ \E c \in DOMAIN caches : Clear(c)
  \/ NetDown
  \/ NetUp

Spec == Init /\ [][Next]_vars

(***************************************************************************)
(* What the wrapped functions return, computed from a key without any      *)
(* cache: the reference the wrappers are compared with.                    *)
(***************************************************************************)
ParamK(k, name, pos) ==
  IF Len(k[1]) >= pos THEN k[1][pos]
  ELSE (CHOOSE p \in k[2] : p[1] = name)[2]

Expected(fn, k) ==
  IF fn = "fib" THEN fib_what(ParamK(k, "i", 1)[2])
  ELSE IF fn = "count_distinct_words" THEN DistinctWords(ParamK(k, "url", 1)[2])
  ELSE DistinctWords(ParamK(k, "a", 1)[2]) - DistinctWords(ParamK(k, "b", 2)[2])

\* The call has an unhashable argument.
HasList(call) ==
  \/ \E j \in DOMAIN call.args : call.args[j][1] = "list"
  \/ \E j \in DOMAIN call.kwargs : call.kwargs[j][2][1] = "list"

\* The step is a wrapper call (each operation records itself in last).
IsCall == last'.op = "call"

\* Successful invocations of the wrapped body for key k through cache c.
Returned(inv, rai, c, k) == Get(inv[c], k) - Get(rai[c], k)

KeysSeen(c) == DOMAIN caches[c] \cup DOMAIN invoked[c]

\* All wrappers over cache c wrap the same function.
SameFn(c) ==
  \A w1, w2 \in DOMAIN wrappers :
    wrappers[w1].cache = c /\ wrappers[w2].cache = c
      => wrappers[w1].fn = wrappers[w2].fn

OncePerKey ==
  \A c \in DOMAIN caches : \A k \in KeysSeen(c) :
    Returned(invoked, raised, c, k) = IF k \in DOMAIN caches[c] THEN 1 ELSE 0

(***************************************************************************)
(* C1: with no clear in between, the wrapped function is invoked exactly   *)
(* once per key.  A call whose key is in the cache is a hit: it returns    *)
(* the stored result, invokes nothing and changes nothing.  A call whose   *)
(* key is not in the cache invokes the function for that key once.  After  *)
(* every step, for every cache and key, the invocations that returned      *)
(* since the last clear number one if the key is cached and none if not.   *)
(***************************************************************************)
C1_InvokedOncePerKey ==
  [][ /\ OncePerKey'
      /\ IsCall /\ ~HasList(last'.call) =>
           LET c == last'.cache
               k == Key(last'.call)
           IN  IF k \in DOMAIN caches[c]
               THEN /\ last'.outcome = "hit"
                    /\ last'.result = caches[c][k]
                    /\ last'.ninv = 0
                    /\ invoked' = invoked
                    /\ caches' = caches
               ELSE /\ last'.outcome \in {"miss", "raise"}
                    /\ Get(invoked'[c], k) = Get(invoked[c], k) + 1
    ]_vars

\* A repeated call was served as a hit and the function's counter for its key is one.
C1_Witness ==
  /\ last.op = "call"
  /\ last.outcome = "hit"
  /\ last.ninv = 0
  /\ Get(invoked[last.cache], Key(last.call)) = 1
  /\ storedBy[last.cache][Key(last.call)].w = last.w

EntriesRight ==
  \A w \in DOMAIN wrappers :
    LET c == wrappers[w].cache
    IN  SameFn(c) =>
          \A k \in DOMAIN caches[c] : caches[c][k] = Expected(wrappers[w].fn, k)

(***************************************************************************)
(* C2: a call on a key that is not in the cache invokes the function,      *)
(* stores its result under the key and returns it; so every entry of a     *)
(* cache maps its key to the value the function returns for those          *)
(* arguments, and every call that does not fail returns that value.        *)
(***************************************************************************)
C2_StoresAndReturnsValue ==
  [][ /\ EntriesRight'
      /\ IsCall /\ ~HasList(last'.call) /\ SameFn(last'.cache) =>
           LET c == last'.cache
               k == Key(last'.call)
               v == Expected(wrappers[last'.w].fn, k)
           IN  /\ last'.outcome \in {"hit", "miss"} => last'.result = v
               /\ k \notin DOMAIN caches[c] /\ last'.outcome # "raise" =>
                    /\ last'.outcome = "miss"
                    /\ last'.ninv >= 1
                    /\ k \in DOMAIN caches'[c]
                    /\ caches'[c][k] = v
    ]_vars

\* A miss of fib(5) has stored 5 under its key and returned it.
C2_Witness ==
  /\ last.op = "call"
  /\ last.outcome = "miss"
  /\ last.call = Pos(<<IntV(5)>>)
  /\ last.result = 5
  /\ caches[last.cache][Key(last.call)] = 5

(***************************************************************************)
(* C3: when the wrapped function raises, the call raises and leaves the    *)
(* cache as it was, with no entry for the key; a later call on a key that  *)
(* has raised and is still not cached invokes the function again, and      *)
(* when the function no longer raises it is a miss that returns the        *)
(* function's value and stores it.                                         *)
(***************************************************************************)
C3_FailureNotCached ==
  [][ IsCall /\ ~HasList(last'.call) =>
        LET c == last'.cache
            k == Key(last'.call)
        IN  /\ last'.outcome = "raise" =>
                 /\ caches' = caches
                 /\ k \notin DOMAIN caches'[c]
                 /\ last'.ninv >= 1
                 /\ Get(raised'[c], k) = Get(raised[c], k) + 1
            /\ Get(raised[c], k) >= 1 /\ k \notin DOMAIN caches[c] =>
                 /\ last'.outcome \in {"miss", "raise"}
                 /\ last'.ninv >= 1
                 /\ ~down =>
                      /\ last'.outcome = "miss"
                      /\ last'.result = Expected(wrappers[last'.w].fn, k)
                      /\ caches'[c][k] = last'.result
    ]_vars

\* A call that had raised on a key was retried after the network came back and succeeded.
C3_Witness ==
  /\ last.op = "call"
  /\ last.outcome = "miss"
  /\ Get(raised[last.cache], Key(last.call)) >= 1
  /\ Key(last.call) \in DOMAIN caches[last.cache]

(***************************************************************************)
(* C4: after cache.clear() the cache is empty, and the next call on a key  *)
(* that was cached before the clear is not a hit: it invokes the wrapped   *)
(* function again and, unless the function raises, stores the entry        *)
(* again, the function's count for the key being one again.                *)
(***************************************************************************)
C4_ClearMakesMisses ==
  /\ last.op = "clear" => caches[last.cache] = <<>>
  /\ last.op = "call" /\ last.refill =>
       LET c == last.cache
           k == Key(last.call)
       IN  /\ last.outcome \in {"miss", "raise"}
           /\ last.ninv >= 1
           /\ last.outcome = "miss" =>
                /\ k \in DOMAIN caches[c]
                /\ Returned(invoked, raised, c, k) = 1

\* fib(10), cached before cache.clear(), was computed again right after it.
C4_Witness ==
  /\ last.op = "call"
  /\ last.refill
  /\ last.outcome = "miss"
  /\ last.call = Pos(<<IntV(MaxN)>>)
  /\ last.ninv = MaxN + 1

KwMap(call) ==
  [n \in { call.kwargs[j][1] : j \in DOMAIN call.kwargs } |->
     (CHOOSE p \in { call.kwargs[j] : j \in DOMAIN call.kwargs } : p[1] = n)[2]]

SameArguments(c1, c2) == c1.args = c2.args /\ KwMap(c1) = KwMap(c2)

OneEntryPerArguments ==
  \A c \in DOMAIN caches : \A k1, k2 \in DOMAIN caches[c] :
    SameArguments(storedBy[c][k1].call, storedBy[c][k2].call) => k1 = k2

(***************************************************************************)
(* C5: two calls use the same entry if and only if their argument values   *)
(* are equal: the positional arguments as a sequence, the keyword          *)
(* arguments as a mapping from names to values.  A call is a hit exactly   *)
(* when an entry was stored by a call with equal arguments, a miss adds an *)
(* entry of its own, and no two entries come from calls with equal         *)
(* arguments.                                                              *)
(***************************************************************************)
C5_KeyIsArgumentValues ==
  [][ /\ OneEntryPerArguments'
      /\ IsCall /\ ~HasList(last'.call) =>
           LET c == last'.cache
               same == { k \in DOMAIN caches[c] :
                           SameArguments(storedBy[c][k].call, last'.call) }
           IN  /\ last'.outcome = "hit" <=> same # {}
               /\ last'.outcome = "hit" =>
                    /\ \A k \in same : last'.result = caches[c][k]
                    /\ DOMAIN caches'[c] = DOMAIN caches[c]
               /\ last'.outcome = "miss" =>
                    \E k \in DOMAIN caches'[c] \ DOMAIN caches[c] :
                      storedBy'[c][k].call = last'.call
    ]_vars

\* cmp_url was called with (1, 2), with (2, 1) and with a= and b= in both orders: three entries.
C5_Witness ==
  /\ last.op = "call"
  /\ last.outcome = "hit"
  /\ last.call.kwargs # <<>>
  /\ storedBy[last.cache][Key(last.call)].call # last.call
  /\ Cardinality(DOMAIN caches[last.cache]) = 3

Sharing(w1, w2) ==
  /\ w1 # w2
  /\ wrappers[w1].ext /\ wrappers[w2].ext
  /\ wrappers[w1].fn = wrappers[w2].fn

OncePerKeyShared ==
  \A w1, w2 \in DOMAIN wrappers :
    Sharing(w1, w2) =>
      LET c1 == wrappers[w1].cache
          c2 == wrappers[w2].cache
      IN  \A k \in KeysSeen(c1) \cup KeysSeen(c2) :
            IF c1 = c2 THEN Returned(invoked, raised, c1, k) <= 1
            ELSE Returned(invoked, raised, c1, k)
                   + Returned(invoked, raised, c2, k) <= 1

(***************************************************************************)
(* C6: of two wrappers of one function built over the dictionary passed to *)
(* both, a call through one on a key the other has stored is a hit that    *)
(* returns the stored value without invoking the function; the function    *)
(* is invoked once per key across both.                                    *)
(***************************************************************************)
C6_SharedCacheServesBoth ==
  [][ /\ OncePerKeyShared'
      /\ IsCall /\ ~HasList(last'.call) =>
           \A w1 \in DOMAIN wrappers :
             LET c1 == wrappers[w1].cache
                 k == Key(last'.call)
             IN  /\ Sharing(w1, last'.w)
                 /\ k \in DOMAIN caches[c1]
                 /\ storedBy[c1][k].w = w1
                 => /\ last'.outcome = "hit"
                    /\ last'.result = caches[c1][k]
                    /\ last'.ninv = 0
                    /\ invoked' = invoked
    ]_vars

\* A call through one wrapper was a hit on an entry the other wrapper stored.
C6_Witness ==
  /\ last.op = "call"
  /\ last.outcome = "hit"
  /\ wrappers[last.w].ext
  /\ storedBy[last.cache][Key(last.call)].w # last.w

Private(w1, w2) == w1 # w2 /\ ~wrappers[w1].ext /\ ~wrappers[w2].ext

(***************************************************************************)
(* C7: of two wrappers built without a dictionary, a call through one      *)
(* leaves the other's cache as it was, and a call through a wrapper on a   *)
(* key it has not stored itself is not a hit: it invokes the function,     *)
(* also when the other wrapper has the key cached.                         *)
(***************************************************************************)
C7_PrivateCachesIsolated ==
  [][ IsCall =>
        /\ \A w2 \in DOMAIN wrappers :
             Private(last'.w, w2) =>
               LET c2 == wrappers[w2].cache
               IN  /\ caches'[c2] = caches[c2]
                   /\ invoked'[c2] = invoked[c2]
        /\ /\ ~HasList(last'.call)
           /\ \E w1 \in DOMAIN wrappers : Private(w1, last'.w)
           /\ LET c == last'.cache
                  k == Key(last'.call)
              IN  ~(k \in DOMAIN storedBy[c] /\ storedBy[c][k].w = last'.w)
           => /\ last'.outcome \in {"miss", "raise"}
              /\ last'.ninv >= 1
    ]_vars

\* The second wrapper missed on a key the first wrapper has in its own cache.
C7_Witness ==
  /\ last.op = "call"
  /\ last.outcome = "miss"
  /\ \E w1 \in DOMAIN wrappers :
       /\ Private(w1, last.w)
       /\ wrappers[w1].cache # last.cache
       /\ Key(last.call) \in DOMAIN caches[wrappers[w1].cache]
       /\ storedBy[wrappers[w1].cache][Key(last.call)].w = w1

(***************************************************************************)
(* C8: with the name fib bound to the memoized wrapper, fib(n) on an empty *)
(* cache returns the n-th Fibonacci number, fib(10) = 55, and invokes the  *)
(* body once for each argument in 0..n at most.                            *)
(***************************************************************************)
C8_FibLinear ==
  [][ /\ IsCall
      /\ wrappers[last'.w].fn = "fib"
      /\ ~HasList(last'.call)
      /\ caches[last'.cache] = <<>>
      => LET c == last'.cache
             n == last'.call.args[1][2]
         IN  /\ last'.outcome = "miss"
             /\ last'.result = fib_what(n)
             /\ n = 10 => last'.result = 55
             /\ last'.ninv <= n + 1
             /\ \A k \in DOMAIN invoked'[c] :
                  /\ invoked'[c][k] = 1
                  /\ k[1][1][2] \in 0..n
    ]_vars

\* fib(10) on an empty cache returned 55 after 11 invocations of the body.
C8_Witness ==
  /\ last.op = "call"
  /\ last.call = Pos(<<IntV(10)>>)
  /\ last.outcome = "miss"
  /\ last.result = 55
  /\ last.ninv = 11
  /\ Cardinality(DOMAIN caches[last.cache]) = 11

(***************************************************************************)
(* C9: a call with an unhashable argument ends in the key error; it        *)
(* invokes nothing and leaves every cache as it was.  A call ends in a     *)
(* hit, a miss, the key error or the wrapped function's own failure, and   *)
(* the key error is raised for unhashable arguments only.                  *)
(***************************************************************************)
C9_UnhashableArguments ==
  [][ IsCall =>
        /\ last'.outcome \in {"hit", "miss", "raise", "keyerror"}
        /\ HasList(last'.call) <=> last'.outcome = "keyerror"
        /\ last'.outcome = "keyerror" =>
             /\ caches' = caches
             /\ invoked' = invoked
             /\ raised' = raised
             /\ last'.ninv = 0
        /\ last'.outcome = "raise" =>
             /\ last'.ninv >= 1
             /\ Total(raised') = Total(raised) + 1
    ]_vars

\* A call with a list argument ended in the key error, the cache holding entries.
C9_Witness ==
  /\ last.op = "call"
  /\ HasList(last.call)
  /\ last.outcome = "keyerror"
  /\ Cardinality(DOMAIN caches[last.cache]) >= 2

(***************************************************************************)
(* C10: a step that is not a clear removes no key from any cache and       *)
(* changes no stored value, and a hit leaves the caches exactly as they    *)
(* were.                                                                   *)
(***************************************************************************)
C10_CacheOnlyGrows ==
  [][ last'.op # "clear" =>
        /\ \A c \in DOMAIN caches : \A k \in DOMAIN caches[c] :
             /\ k \in DOMAIN caches'[c]
             /\ caches'[c][k] = caches[c][k]
        /\ last'.outcome = "hit" => caches' = caches
    ]_vars

\* A call raised while its cache held two entries.
C10_Witness ==
  /\ last.op = "call"
  /\ last.outcome = "raise"
  /\ Cardinality(DOMAIN caches[last.cache]) >= 2

(***************************************************************************)
(* The decorator and the assignment, side by side.  The first form of a    *)
(* pair is `@memoize` above `def fn`; the second is `name = memoize(fn)`   *)
(* or `name = memoize(fn, cache)`, where name is fn itself or another      *)
(* name, g.  Both forms receive the same calls, and each form's caller     *)
(* keeps how its last call ended.                                          *)
(***************************************************************************)
Decorated(fn) == [fn |-> fn, ext |-> FALSE, name |-> fn]
Assigned(name, fn, ext) == [fn |-> fn, ext |-> ext, name |-> name]

Forms ==
  { <<Decorated(fn), Assigned(IF own THEN fn ELSE "g", fn, ext)>> :
      fn \in {"fib", "count_distinct_words"}, own \in BOOLEAN, ext \in BOOLEAN }

\* The calls made to both forms of a pair.
PairCalls(fn) ==
  IF fn = "fib"
  THEN { Pos(<<IntV(n)>>) : n \in 0..MaxPair } \cup { Pos(<<ListV(1)>>) }
  ELSE CallsOf(fn)

Ended(outcome, result, ninv) ==
  [outcome |-> outcome, result |-> result, ninv |-> ninv]

InitForms ==
  \E pair \in Forms :
    LET b == Build(pair)
    IN  /\ wrappers = b.wrappers
        /\ caches = [c \in 1..b.n |-> <<>>]
        /\ invoked = [c \in 1..b.n |-> <<>>]
        /\ raised = [c \in 1..b.n |-> <<>>]
        /\ storedBy = [c \in 1..b.n |-> <<>>]
        /\ down = FALSE
        /\ last = Op("init", 0, 0, NoCall, "none", 0, 0, {}, FALSE)
        /\ frames = <<Ended("none", 0, 0), Ended("none", 0, 0)>>

\* The same call made to the decorated form and to the assigned form.
CallEach(call) ==
  LET st0 == [caches |-> caches, invoked |-> invoked, raised |-> raised,
              storedBy |-> storedBy, ninv |-> 0]
      r1 == g(st0, 1, call)
      r2 == g([r1.st EXCEPT !.ninv = 0], 2, call)
  IN  /\ \A c \in DOMAIN caches :
           SumOver(r2.st.raised[c], DOMAIN r2.st.raised[c]) <= MaxFails
      /\ caches' = r2.st.caches
      /\ invoked' = r2.st.invoked
      /\ raised' = r2.st.raised
      /\ storedBy' = r2.st.storedBy
      /\ last' = Op("call", 0, 0, call, "none", 0, 0, {}, FALSE)
      /\ frames' = <<Ended(r1.outcome, r1.result, r1.st.ninv),
                    Ended(r2.outcome, r2.result, r2.st.ninv)>>
      /\ UNCHANGED <<wrappers, down>>

\* The dictionary of each form is cleared.
ClearEach ==
  /\ caches' = [c \in DOMAIN caches |-> clear(caches[c])]
  /\ invoked' = [c \in DOMAIN caches |-> <<>>]
  /\ raised' = [c \in DOMAIN caches |-> <<>>]
  /\ storedBy' = [c \in DOMAIN caches |-> <<>>]
  /\ last' = Op("clear", 0, 0, NoCall, "none", 0, 0, {}, FALSE)
  /\ UNCHANGED <<wrappers, down, frames>>

NextForms ==
  \/ \E call \in PairCalls(wrappers[1].fn) : CallEach(call)
  \/ ClearEach
  \/ NetDown
  \/ NetUp

SpecForms == InitForms /\ [][NextForms]_vars

\* The two forms agree on what the last call returned or raised, on the
\* number of invocations it made, on the entries of their dictionaries and on
\* the invocations counted per key.
SameBehaviour ==
  /\ frames[1] = frames[2]
  /\ caches[wrappers[1].cache] = caches[wrappers[2].cache]
  /\ invoked[wrappers[1].cache] = invoked[wrappers[2].cache]

fib_how_body_sequential(a, b) == <<b, b + b>>

\* a, b = b, a + b
fib_how_body(a, b) == <<b, a + b>>

\* The sequence as the notebook prints it for range(11).
Printed == <<0, 1, 1, 2, 3, 5, 8, 13, 21, 34, 55>>

\* fib_how(i) is called: a, b = 0, 1
InitHow ==
  /\ wrappers = <<>>
  /\ caches = <<>>
  /\ invoked = <<>>
  /\ raised = <<>>
  /\ storedBy = <<>>
  /\ down = FALSE
  /\ last = Op("init", 0, 0, NoCall, "none", 0, 0, {}, FALSE)
  /\ \E i \in 0..MaxHow :
       frames = [pc |-> "for", i |-> i, a |-> 0, b |-> 1, done |-> 0,
                 result |-> 0]

\* for _ in range(i): a, b = b, a + b
Iterate ==
  /\ frames.pc = "for"
  /\ frames.done < frames.i
  /\ frames' = [frames EXCEPT !.a = fib_how_body(frames.a, frames.b)[1],
                              !.b = fib_how_body(frames.a, frames.b)[2],
                              !.done = @ + 1]
  /\ UNCHANGED <<wrappers, caches, invoked, raised, storedBy, down, last>>

\* return a
ReturnHow ==
  /\ frames.pc = "for"
  /\ frames.done = frames.i
  /\ frames' = [frames EXCEPT !.pc = "returned", !.result = frames.a]
  /\ UNCHANGED <<wrappers, caches, invoked, raised, storedBy, down, last>>

NextHow ==
  \/ Iterate
  \/ ReturnHow

SpecHow == InitHow /\ [][NextHow]_vars

(***************************************************************************)
(* C12: fib_how returns what fib_what returns: for every i from 0 up to    *)
(* the bound, fib_how(i) = fib_what(i), and for i in 0..10 both are the    *)
(* printed 0, 1, 1, 2, 3, 5, 8, 13, 21, 34, 55.                            *)
(***************************************************************************)
C12_HowEqualsWhat ==
  frames.pc = "returned" =>
    /\ frames.result = fib_what(frames.i)
    /\ frames.i + 1 \in DOMAIN Printed =>
         /\ frames.result = Printed[frames.i + 1]
         /\ fib_what(frames.i) = Printed[frames.i + 1]

C12_Witness ==
  /\ frames.pc = "returned"
  /\ frames.i = Len(Printed) - 1
  /\ frames.done = frames.i
  /\ frames.result = Printed[Len(Printed)]

(***************************************************************************)
(* Two callers of one wrapper at the same time.  No lock is held on the    *)
(* miss path, so a call is three steps that interleave with the other      *)
(* caller's: the lookup of the key, the invocation of the wrapped          *)
(* function, and the store of its result.  The wrapper is one of           *)
(* count_distinct_words over the notebook's cache; each caller keeps where *)
(* it is in its call, the call, and the result it holds.                   *)
(***************************************************************************)
Callers == {1, 2}

Frame(pc, call, outcome, result) ==
  [pc |-> pc, call |-> call, outcome |-> outcome, result |-> result]

InitRace ==
  LET b == Build(<<W("count_distinct_words", TRUE)>>)
  IN  /\ wrappers = b.wrappers
      /\ caches = [c \in 1..b.n |-> <<>>]
      /\ invoked = [c \in 1..b.n |-> <<>>]
      /\ raised = [c \in 1..b.n |-> <<>>]
      /\ storedBy = [c \in 1..b.n |-> <<>>]
      /\ down = FALSE
      /\ last = Op("init", 0, 0, NoCall, "none", 0, 0, {}, FALSE)
      /\ frames = [t \in Callers |-> Frame("idle", NoCall, "none", 0)]

\* Caller t calls g: the key is looked up; a hit returns at once, and a call
\* that has no key raises.
Lookup(t, call) ==
  LET c == wrappers[1].cache
      k == Key(call)
  IN  /\ frames[t].pc = "idle"
      /\ frames' = [frames EXCEPT ![t] =
                      IF ~Keyable(call)
                      THEN Frame("raised", call, "keyerror", 0)
                      ELSE IF k \in DOMAIN caches[c]
                           THEN Frame("returned", call, "hit", caches[c][k])
                           ELSE Frame("missed", call, "none", 0)]
      /\ last' = Op("lookup", 1, c, call, "none", 0, 0, {}, FALSE)
      /\ UNCHANGED <<wrappers, caches, invoked, raised, storedBy, down>>

\* After a miss, caller t invokes the wrapped function; a failure propagates.
Invoke(t) ==
  LET c == wrappers[1].cache
      st0 == [caches |-> caches, invoked |-> invoked, raised |-> raised,
              storedBy |-> storedBy, ninv |-> 0]
      r == Body(st0, 1, frames[t].call)
  IN  /\ frames[t].pc = "missed"
      /\ Total(r.st.raised) <= MaxFails
      /\ invoked' = r.st.invoked
      /\ raised' = r.st.raised
      /\ frames' = [frames EXCEPT ![t] =
                      IF r.outcome = "ok"
                      THEN Frame("computed", frames[t].call, "none", r.result)
                      ELSE Frame("raised", frames[t].call, r.outcome, 0)]
      /\ last' = Op("invoke", 1, c, frames[t].call, r.outcome, r.result, 1,
                    {}, FALSE)
      /\ UNCHANGED <<wrappers, caches, storedBy, down>>

\* Caller t stores the result it computed and returns it.
StoreResult(t) ==
  LET c == wrappers[1].cache
      st0 == [caches |-> caches, invoked |-> invoked, raised |-> raised,
              storedBy |-> storedBy, ninv |-> 0]
      st1 == Store(st0, c, Key(frames[t].call), frames[t].result, t,
                   frames[t].call)
  IN  /\ frames[t].pc = "computed"
      /\ caches' = st1.caches
      /\ storedBy' = st1.storedBy
      /\ frames' = [frames EXCEPT ![t] =
                      Frame("returned", frames[t].call, "miss",
                            frames[t].result)]
      /\ last' = Op("store", 1, c, frames[t].call, "miss", frames[t].result,
                    0, {}, FALSE)
      /\ UNCHANGED <<wrappers, invoked, raised, down>>

\* Caller t has its answer and is ready for another call.
Resume(t) ==
  /\ frames[t].pc \in {"returned", "raised"}
  /\ frames' = [frames EXCEPT ![t] = Frame("idle", NoCall, "none", 0)]
  /\ last' = Op("resume", 0, 0, NoCall, "none", 0, 0, {}, FALSE)
  /\ UNCHANGED <<wrappers, caches, invoked, raised, storedBy, down>>

NextRace ==
  \/ \E t \in Callers : \E call \in CallsOf(wrappers[1].fn) : Lookup(t, call)
  \/ \E t \in Callers : Invoke(t)
  \/ \E t \in Callers : StoreResult(t)
  \/ \E t \in Callers : Resume(t)
  \/ NetDown
  \/ NetUp

SpecRace == InitRace /\ [][NextRace]_vars

(***************************************************************************)
(* C13: when two callers call the wrapper at the same time and the miss    *)
(* path is not mutually exclusive, the work may be duplicated but the      *)
(* cache is not corrupted: in every interleaving a caller that returns,    *)
(* by a hit or after its own miss, returns the function's result, its key  *)
(* is then in the cache, every entry holds the function's result for its   *)
(* key, and the function has returned for a key at most once per caller.   *)
(***************************************************************************)
C13_DuplicateWorkNotCorruption ==
  LET c == wrappers[1].cache
  IN  /\ \A t \in Callers :
           frames[t].pc = "returned" =>
             /\ frames[t].result
                  = Expected(wrappers[1].fn, Key(frames[t].call))
             /\ Key(frames[t].call) \in DOMAIN caches[c]
      /\ \A k \in DOMAIN caches[c] :
           /\ caches[c][k] = Expected(wrappers[1].fn, k)
           /\ Returned(invoked, raised, c, k) >= 1
      /\ \A k \in DOMAIN invoked[c] :
           Returned(invoked, raised, c, k) <= Cardinality(Callers)

\* Both callers missed on the same key, both invoked the function, both
\* stored and returned its result, and the cache holds it.
C13_Witness ==
  LET c == wrappers[1].cache
      k == Key(frames[1].call)
  IN  /\ frames[1].pc = "returned" /\ frames[1].outcome = "miss"
      /\ frames[2].pc = "returned" /\ frames[2].outcome = "miss"
      /\ frames[1].call = frames[2].call
      /\ Returned(invoked, raised, c, k) = 2
      /\ frames[1].result = frames[2].result
      /\ caches[c][k] = frames[1].result
      /\ DOMAIN caches[c] = {k}

(***************************************************************************)
(* The notebook's fib that caches by hand, over the module-level           *)
(* dictionary `cache`:  the lookup first, then the two base cases, which   *)
(* return without storing, then the sum, which is stored under i.  The     *)
(* keys are the integers themselves.  A call yields the dictionary it      *)
(* leaves, its result, whether the lookup answered it, and the number of   *)
(* sums computed.                                                          *)
(***************************************************************************)
Leaves(cache, result, hit, sums) ==
  [cache |-> cache, result |-> result, hit |-> hit, sums |-> sums]

RECURSIVE fib_hand_storing_bases(_, _)
\* The same with the base cases stored like any other result.
fib_hand_storing_bases(cache, i) ==
  IF i \in DOMAIN cache THEN Leaves(cache, cache[i], TRUE, 0)
  ELSE IF i = 0 THEN Leaves(Put(cache, i, 0), 0, FALSE, 0)
  ELSE IF i = 1 THEN Leaves(Put(cache, i, 1), 1, FALSE, 0)
  ELSE LET r1 == fib_hand_storing_bases(cache, i - 1)
           r2 == fib_hand_storing_bases(r1.cache, i - 2)
           result == r1.result + r2.result
       IN  Leaves(Put(r2.cache, i, result), result, FALSE,
                  r1.sums + r2.sums + 1)

RECURSIVE fib_hand_wrong_key(_, _)
\* The same with the sum remembered under i - 1.
fib_hand_wrong_key(cache, i) ==
  IF i \in DOMAIN cache THEN Leaves(cache, cache[i], TRUE, 0)
  ELSE IF i = 0 THEN Leaves(cache, 0, FALSE, 0)
  ELSE IF i = 1 THEN Leaves(cache, 1, FALSE, 0)
  ELSE LET r1 == fib_hand_wrong_key(cache, i - 1)
           r2 == fib_hand_wrong_key(r1.cache, i - 2)
           result == r1.result + r2.result
       IN  Leaves(Put(r2.cache, i - 1, result), result, FALSE,
                  r1.sums + r2.sums + 1)

RECURSIVE fib_hand(_, _)
\* def fib(i), of the cell that begins with cache = dict()
fib_hand(cache, i) ==
  IF i \in DOMAIN cache THEN Leaves(cache, cache[i], TRUE, 0)
  ELSE IF i = 0 THEN Leaves(cache, 0, FALSE, 0)
  ELSE IF i = 1 THEN Leaves(cache, 1, FALSE, 0)
  ELSE LET r1 == fib_hand(cache, i - 1)
           r2 == fib_hand(r1.cache, i - 2)
           result == r1.result + r2.result
       IN  Leaves(Put(r2.cache, i, result), result, FALSE,
                  r1.sums + r2.sums + 1)

\* cache = dict()
InitHand ==
  /\ wrappers = <<>>
  /\ caches = << <<>> >>
  /\ invoked = << <<>> >>
  /\ raised = << <<>> >>
  /\ storedBy = << <<>> >>
  /\ down = FALSE
  /\ last = Op("init", 0, 0, NoCall, "none", 0, 0, {}, FALSE)
  /\ frames = <<>>

\* fib(i)
CallHand(i) ==
  LET r == fib_hand(caches[1], i)
  IN  /\ caches' = [caches EXCEPT ![1] = r.cache]
      /\ last' = Op("call", 0, 1, Pos(<<IntV(i)>>),
                    IF r.hit THEN "hit" ELSE "ok", r.result, r.sums, {}, FALSE)
      /\ UNCHANGED <<wrappers, invoked, raised, storedBy, down, frames>>

NextHand ==
  \/ \E i \in 0..MaxN : CallHand(i)
  \/ \E c \in DOMAIN caches : Clear(c)

SpecHand == InitHand /\ [][NextHand]_vars

(***************************************************************************)
(* C14: after any sequence of fib(i), i >= 0, and cache.clear(), every     *)
(* entry of the hand-written cache satisfies cache[k] = fib_what(k), and   *)
(* every call fib(i) returns fib_what(i).                                  *)
(***************************************************************************)
C14_HandCacheHoldsFib ==
  /\ \A k \in DOMAIN caches[1] : caches[1][k] = fib_what(k)
  /\ last.op = "call" => last.result = fib_what(last.call.args[1][2])

\* fib(MaxN) answered from the cache.
C14_Witness ==
  /\ last.op = "call" /\ last.outcome = "hit"
  /\ last.call = Pos(<<IntV(MaxN)>>)
  /\ last.result = fib_what(MaxN)
  /\ MaxN \in DOMAIN caches[1]

(***************************************************************************)
(* C16: the hand-written cache never stores the base cases: its keys are   *)
(* integers >= 2; a call fib(n), n >= 2, made on an empty cache leaves the *)
(* key set exactly {2, ..., n}; and fib(0) and fib(1) are never answered   *)
(* from the cache.                                                         *)
(***************************************************************************)
C16_BaseCasesNotStored ==
  [][ /\ \A k \in DOMAIN caches'[1] : k >= 2
      /\ IsCall =>
           LET n == last'.call.args[1][2]
           IN  /\ (caches[1] = <<>> /\ n >= 2) => DOMAIN caches'[1] = 2..n
               /\ n \in {0, 1} =>
                    /\ last'.outcome # "hit"
                    /\ caches'[1] = caches[1] ]_vars

\* fib(MaxN) on the empty cache filled it with 2..MaxN, and fib(1) was then
\* computed, not looked up.
C16_Witness ==
  /\ last.op = "call" /\ last.call = Pos(<<IntV(1)>>)
  /\ last.outcome = "ok" /\ last.result = 1
  /\ DOMAIN caches[1] = 2..MaxN

(***************************************************************************)
(* The cell of the precomputed counts.  word_counts is caches[1]; the loop *)
(* `for url in urls` keeps the next url to count, and stops where          *)
(* count_distinct_words raises.  The comparators are then called on pairs  *)
(* of urls: cmp_url, which opens both pages, and cmp_url_cached, which     *)
(* reads word_counts.  The pages compared are those of urls and the page   *)
(* of the docstrings, which is not in urls.                                *)
(***************************************************************************)
pages == urls \cup {NumUrls + 1}

\* Python's cmp(x, y)
cmp(x, y) == IF x < y THEN -1 ELSE IF x > y THEN 1 ELSE 0

\* def cmp_url_cached(a, b)
cmp_url_cached(word_counts, a, b) ==
  IF a \notin DOMAIN word_counts \/ b \notin DOMAIN word_counts
  THEN [outcome |-> "keyerror", result |-> 0]
  ELSE [outcome |-> "ok", result |-> cmp(word_counts[a], word_counts[b])]

Loop(pc, next) == [pc |-> pc, next |-> next]

\* word_counts = dict(), before the loop
InitUrls ==
  /\ wrappers = <<>>
  /\ caches = << <<>> >>
  /\ invoked = << <<>> >>
  /\ raised = << <<>> >>
  /\ storedBy = << <<>> >>
  /\ down = FALSE
  /\ last = Op("init", 0, 0, NoCall, "none", 0, 0, {}, FALSE)
  /\ frames = Loop("for", 1)

\* for url in urls: word_counts[url] = count_distinct_words(url)
CountNext ==
  LET url == StrV(frames.next)
      r == count_distinct_words(<<>>, url)
  IN  /\ frames.pc = "for"
      /\ frames.next \in urls
      /\ caches' = IF r.outcome = "ok"
                   THEN [caches EXCEPT ![1] = Put(@, url, r.result)]
                   ELSE caches
      /\ frames' = IF r.outcome # "ok" THEN Loop("raised", frames.next)
                   ELSE IF frames.next + 1 \in urls
                        THEN Loop("for", frames.next + 1)
                        ELSE Loop("done", frames.next + 1)
      /\ last' = Op("count", 0, 1, Pos(<<url>>), r.outcome, r.result, 1, {},
                    FALSE)
      /\ UNCHANGED <<wrappers, invoked, raised, storedBy, down>>

\* The cell is run again: word_counts = dict()
Recount ==
  /\ frames.pc # "for"
  /\ caches' = [caches EXCEPT ![1] = <<>>]
  /\ frames' = Loop("for", 1)
  /\ last' = Op("recount", 0, 1, NoCall, "none", 0, 0, {}, FALSE)
  /\ UNCHANGED <<wrappers, invoked, raised, storedBy, down>>

\* cmp_url(a, b)
CmpUrl(a, b) ==
  LET r == cmp_url(<<>>, StrV(a), StrV(b))
  IN  /\ last' = Op("cmp_url", 0, 1, Pos(<<StrV(a), StrV(b)>>), r.outcome,
                    r.result, IF r.outcome = "ok" THEN 2 ELSE 1, {}, FALSE)
      /\ UNCHANGED <<wrappers, caches, invoked, raised, storedBy, down, frames>>

\* cmp_url_cached(a, b)
CmpUrlCached(a, b) ==
  LET r == cmp_url_cached(caches[1], StrV(a), StrV(b))
  IN  /\ last' = Op("cmp_url_cached", 0, 1, Pos(<<StrV(a), StrV(b)>>),
                    r.outcome, r.result, 0, {}, FALSE)
      /\ UNCHANGED <<wrappers, caches, invoked, raised, storedBy, down, frames>>

NextUrls ==
  \/ CountNext
  \/ Recount
  \/ \E a \in pages : \E b \in pages : CmpUrl(a, b)
  \/ \E a \in pages : \E b \in pages : CmpUrlCached(a, b)
  \/ NetDown
  \/ NetUp

SpecUrls == InitUrls /\ [][NextUrls]_vars

\* word_counts[u] = count_distinct_words(u) for every url u of urls.
Precomputed ==
  \A u \in urls :
    /\ StrV(u) \in DOMAIN caches[1]
    /\ caches[1][StrV(u)] = DistinctWords(u)

(***************************************************************************)
(* C15: cmp_url_cached is a cached version of cmp_url: when                *)
(* word_counts[u] = count_distinct_words(u) for every url of urls,         *)
(* cmp_url_cached(a, b) returns the value cmp_url(a, b) returns, for every *)
(* pair a, b of urls, and calls count_distinct_words no time.              *)
(***************************************************************************)
C15_CachedReturnsWhatCmpUrlReturns ==
  [][ (last'.op = "cmp_url_cached" /\ Precomputed /\ ~down) =>
        LET a == last'.call.args[1]
            b == last'.call.args[2]
        IN  (a[2] \in urls /\ b[2] \in urls) =>
              /\ last'.outcome = "ok"
              /\ last'.ninv = 0
              /\ last'.result = cmp_url(<<>>, a, b).result ]_vars

\* With every count in word_counts, cmp_url_cached(a, b) has returned 1 for
\* two urls for which cmp_url(a, b) returns 2.
C15_Witness ==
  /\ Precomputed /\ ~down
  /\ last.op = "cmp_url_cached" /\ last.outcome = "ok"
  /\ last.call = Pos(<<StrV(2), StrV(1)>>)
  /\ last.result = 1
  /\ cmp_url(<<>>, StrV(2), StrV(1)).result = 2

(***************************************************************************)
(* Two wrappers of different functions over the dictionary passed to both: *)
(* the first wraps count_distinct_words, the second wraps fib, and both    *)
(* are called with urls.                                                   *)
(***************************************************************************)
MixedCalls == { Pos(<<StrV(u)>>) : u \in urls }

InitMixed ==
  LET b == Build(<<W("count_distinct_words", TRUE), W("fib", TRUE)>>)
  IN  /\ wrappers = b.wrappers
      /\ caches = [c \in 1..b.n |-> <<>>]
      /\ invoked = [c \in 1..b.n |-> <<>>]
      /\ raised = [c \in 1..b.n |-> <<>>]
      /\ storedBy = [c \in 1..b.n |-> <<>>]
      /\ down = FALSE
      /\ last = Op("init", 0, 0, NoCall, "none", 0, 0, {}, FALSE)
      /\ frames = <<>>

NextMixed ==
  \/ \E w \in DOMAIN wrappers : \E call \in MixedCalls : Call(w, call)
  \/ \E c \in DOMAIN caches : Clear(c)
  \/ NetDown
  \/ NetUp

SpecMixed == InitMixed /\ [][NextMixed]_vars

\* Two wrappers of different functions, each given the caller's dictionary.
SharingAcross(w1, w2) ==
  /\ w1 # w2
  /\ wrappers[w1].ext /\ wrappers[w2].ext
  /\ wrappers[w1].fn # wrappers[w2].fn

(***************************************************************************)
(* C17: the key is derived from the arguments only, not from the wrapped   *)
(* function: with g_f = memoize(f, c) and g_h = memoize(h, c) over one     *)
(* dictionary c, a call g_h(x) made when g_f(x) has stored its entry is a  *)
(* hit that returns f(x), the stored value, without invoking h, and it     *)
(* leaves the dictionary as it was.                                        *)
(***************************************************************************)
C17_KeyIgnoresFunction ==
  [][ IsCall =>
        \A w1 \in DOMAIN wrappers :
          LET c1 == wrappers[w1].cache
              k == Key(last'.call)
          IN  /\ SharingAcross(w1, last'.w)
              /\ k \in DOMAIN caches[c1]
              /\ storedBy[c1][k].w = w1
              => /\ last'.outcome = "hit"
                 /\ last'.result = Expected(wrappers[w1].fn, k)
                 /\ last'.result = caches[c1][k]
                 /\ last'.ninv = 0
                 /\ invoked' = invoked
                 /\ caches' = caches
    ]_vars

\* The wrapper of fib, called with a url, returned the number of distinct
\* words that the wrapper of count_distinct_words had stored; fib did not run.
C17_Witness ==
  /\ last.op = "call" /\ last.outcome = "hit" /\ last.ninv = 0
  /\ wrappers[last.w].fn = "fib"
  /\ last.call = Pos(<<StrV(2)>>)
  /\ last.result = DistinctWords(2)
  /\ wrappers[storedBy[last.cache][Key(last.call)].w].fn = "count_distinct_words"
  /\ invoked[last.cache][Key(last.call)] = 1
====
